---------------------------- MODULE Spec2Model ----------------------------
(***************************************************************************)
(* Model of the two scripts of the repository:                             *)
(*   simple_test_server.py  MockParaViewServer (handle_client,             *)
(*                          process_message)                               *)
(*   paraview_server.py     VtkVisualizationProtocol (the four registered  *)
(*                          RPC methods and the session fields they keep)  *)
(* SpecMock is the mock server with several connected clients,             *)
(* SpecDispatch is process_message applied to a sequence of messages, and  *)
(* SpecProto is one protocol instance driven by an arbitrary sequence of   *)
(* RPC calls with the visualization library allowed to fail at any call.   *)
(***************************************************************************)
EXTENDS Integers, Sequences, FiniteSets, TLC

(***************************************************************************)
(* Bounds of the model.                                                    *)
(***************************************************************************)
\* clients that may connect to the mock server
NumClients == 2
\* messages sent to the mock server, all clients together
MaxMsgs == 2
\* objects the visualization library hands out (views, readers, ...)
MaxObjs == 4
\* the caller's num_contours ranges over -MaxContours .. MaxContours
MaxContours == 3

(***************************************************************************)
(* JSON values.  A value is a record tagged by k; an object holds its      *)
(* members in f, a member the text does not carry being JAbsent.           *)
(***************************************************************************)
JAbsent == [k |-> "absent"]
JNull == [k |-> "null"]
JStr(s) == [k |-> "str", s |-> s]
JInt(n) == [k |-> "int", n |-> n]
JObj(members) == [k |-> "obj", f |-> members]

\* Python's str(v), as an f-string formats v
PyStr(v) ==
  CASE v.k = "str" -> v.s
    [] v.k = "int" -> ToString(v.n)
    [] v.k = "null" -> "None"

\* Outcome of a Python block: it returns a value or raises an exception.
Return(v) == [raised |-> FALSE, value |-> v]
Raise(type, text) == [raised |-> TRUE, exc |-> [type |-> type, text |-> text]]

(***************************************************************************)
(* Messages a client may send, as the texts of the WebSocket frames.       *)
(*   [k |-> "text", ...]  a text that is not JSON        not json          *)
(*   [k |-> "json", v]    a JSON text with value v                         *)
(***************************************************************************)
MethodNames == {"vtk.initialize", "vtk.apply_color_map",
                "vtk.generate_contours", "vtk.export_image"}
Methods == {JAbsent} \cup {JStr(m) : m \in MethodNames}
Ids == {JAbsent, JInt(1)}
ArrayNames == {JStr("Temperature"), JStr("Pressure")}
Params == {JAbsent, JStr("Temperature")}
            \cup {JObj([array_name |-> a]) : a \in ArrayNames}
Requests == {JObj([method |-> m, id |-> i, params |-> p]) :
               m \in Methods, i \in Ids, p \in Params}
NotJson == [k |-> "text", text |-> "not json"]
JsonText(v) == [k |-> "json", v |-> v]
JArray == [k |-> "list"]
Messages == {NotJson, JsonText(JArray)} \cup {JsonText(r) : r \in Requests}

\* json.loads(message)
json_loads(message) ==
  IF message.k = "text"
    THEN Raise("JSONDecodeError", "Expecting value: line 1 column 1 (char 0)")
    ELSE Return(message.v)

\* Python's name of the type of a JSON value that is not a dict
PyTypeName(v) ==
  CASE v.k = "list" -> "list"
    [] v.k = "str" -> "str"
    [] v.k = "int" -> "int"
    [] v.k = "null" -> "NoneType"

\* obj.get(key, default): AttributeError unless obj is a dict
Get(obj, key, default) ==
  IF obj.k # "obj"
    THEN Raise("AttributeError",
               "'" \o PyTypeName(obj) \o "' object has no attribute 'get'")
    ELSE Return(IF obj.f[key] = JAbsent THEN default ELSE obj.f[key])

(***************************************************************************)
(* MockParaViewServer.process_message                                      *)
(***************************************************************************)
ResultResponse(id, result) == [id |-> id, result |-> result]
ErrorResponse(id, text) == [id |-> id, error |-> [message |-> text]]

\* the id of the branch altered: the message embeds the request's id
MockDefaultResult_IdInMessage(data, method) ==
  [status |-> "success",
   message |-> "Mock response for " \o PyStr(Get(data, "id", JNull).value)]

\* the else branch: lines 77-84
MockDefaultResult(data, method) ==
  [status |-> "success",
   message |-> "Mock response for " \o PyStr(method)]

\* The body of the try block for a parsed dict `data`, after
\* method = data.get('method', ''): the if/elif chain of lines 45-84.
MockDispatch(data, method) ==
  LET id == Get(data, "id", JNull).value IN
  IF method = JStr("vtk.initialize") THEN
    Return(ResultResponse(id,
      [status |-> "success",
       message |-> "Mock ParaView initialized",
       data_arrays |-> <<"Temperature", "Pressure", "Velocity">>,
       bounds |-> <<-100, 100, -50, 50, -75, 75>>,
       points |-> 1234567,
       cells |-> 987654]))
  ELSE IF method = JStr("vtk.apply_color_map") THEN
    LET params == Get(data, "params", JObj([array_name |-> JAbsent])).value
        name == Get(params, "array_name", JStr("unknown")) IN
    IF name.raised THEN name
    ELSE Return(ResultResponse(id,
      [status |-> "success",
       message |-> "Applied color map to " \o PyStr(name.value)]))
  ELSE IF method = JStr("vtk.generate_contours") THEN
    Return(ResultResponse(id,
      [status |-> "success",
       message |-> "Generated 5 contours",
       contour_values |-> <<10, 20, 30, 40, 50>>]))
  ELSE
    Return(ResultResponse(id, MockDefaultResult(data, method)))

\* lines 39-84: the try block
MockTryBody(message) ==
  LET loaded == json_loads(message) IN
  IF loaded.raised THEN loaded
  ELSE LET method == Get(loaded.value, "method", JStr("")) IN
       IF method.raised THEN method
       ELSE MockDispatch(loaded.value, method.value)

\* lines 86-91: the except clause.  `data` is bound only when json.loads
\* returned; data.get needs a dict.
MockExceptClause(message, exc) ==
  LET loaded == json_loads(message) IN
  IF loaded.raised
    THEN Raise("UnboundLocalError",
               "cannot access local variable 'data' where it is not associated with a value")
    ELSE LET id == Get(loaded.value, "id", JInt(0)) IN
         IF id.raised THEN id
         ELSE Return(ErrorResponse(id.value, exc.text))

\* lines 36-91
process_message(message) ==
  LET body == MockTryBody(message) IN
  IF body.raised THEN MockExceptClause(message, body.exc) ELSE body

(***************************************************************************)
(* State of the mock server and of its clients.                            *)
(***************************************************************************)
VARIABLES
  connected_clients,  \* MockParaViewServer.connected_clients
  conn,      \* per client: "none", "open", "client_closed", "server_closed"
  pc,        \* per client: position of its handle_client coroutine
  inbox,     \* per client: messages sent and not yet read by the handler
  pending,   \* per client: the response the handler is about to send
  sent,      \* per client: every message it sent, in order
  outbox     \* per client: every response it received, in order

mockVars == <<connected_clients, conn, pc, inbox, pending, sent, outbox>>

\* process_message on its own: the messages processed so far, each with its
\* outcome
VARIABLES calls

\* one VtkVisualizationProtocol instance
VARIABLES
  view, reader, current_representation, contour_filter,
  volume_representation, data_arrays, color_map,   \* lines 43-49
  nextObj,         \* objects the library has handed out so far
  lastCall,        \* the latest RPC call: its method and arguments
  lastOutcome,     \* what that call gave its caller
  init_succeeded   \* history: some initialize_visualization call so far
                   \* returned status 'success'

sessionVars == <<view, reader, current_representation, contour_filter,
                 volume_representation, data_arrays, color_map>>
protoVars == <<sessionVars, nextObj, lastCall, lastOutcome, init_succeeded>>

Clients == 1 .. NumClients
NoResponse == [none |-> TRUE]

RECURSIVE SumLen(_, _)
SumLen(f, S) ==
  IF S = {} THEN 0
  ELSE LET c == CHOOSE x \in S : TRUE IN Len(f[c]) + SumLen(f, S \ {c})

InitMock ==
  /\ connected_clients = {}
  /\ conn = [c \in Clients |-> "none"]
  /\ pc = [c \in Clients |-> "none"]
  /\ inbox = [c \in Clients |-> <<>>]
  /\ pending = [c \in Clients |-> NoResponse]
  /\ sent = [c \in Clients |-> <<>>]
  /\ outbox = [c \in Clients |-> <<>>]

\* a client connects: websockets starts handle_client, lines 21-24
Connect(c) ==
  /\ conn[c] = "none"
  /\ conn' = [conn EXCEPT ![c] = "open"]
  /\ pc' = [pc EXCEPT ![c] = "recv"]
  /\ connected_clients' = connected_clients \cup {c}
  /\ UNCHANGED <<inbox, pending, sent, outbox>>
  /\ UNCHANGED <<calls, protoVars>>

\* a client sends a message on its open connection
ClientSend(c, m) ==
  /\ conn[c] = "open"
  /\ SumLen(sent, Clients) < MaxMsgs
  /\ inbox' = [inbox EXCEPT ![c] = Append(@, m)]
  /\ sent' = [sent EXCEPT ![c] = Append(@, m)]
  /\ UNCHANGED <<connected_clients, conn, pc, pending, outbox>>
  /\ UNCHANGED <<calls, protoVars>>

\* lines 27-28: the handler reads the next message and processes it.  An
\* exception out of process_message is no ConnectionClosed: it leaves
\* handle_client through the finally clause and the connection is closed.
Receive(c) ==
  /\ pc[c] = "recv"
  /\ inbox[c] # <<>>
  /\ LET r == process_message(Head(inbox[c])) IN
       /\ inbox' = [inbox EXCEPT ![c] = Tail(@)]
       /\ IF r.raised
            THEN /\ pc' = [pc EXCEPT ![c] = "crashed"]
                 /\ conn' = [conn EXCEPT ![c] = "server_closed"]
                 /\ connected_clients' = connected_clients \ {c}
                 /\ UNCHANGED pending
            ELSE /\ pc' = [pc EXCEPT ![c] = "send"]
                 /\ pending' = [pending EXCEPT ![c] = r.value]
                 /\ UNCHANGED <<conn, connected_clients>>
  /\ UNCHANGED <<sent, outbox>>
  /\ UNCHANGED <<calls, protoVars>>

\* line 29: websocket.send(response) on an open connection
SendResponse(c) ==
  /\ pc[c] = "send"
  /\ conn[c] = "open"
  /\ outbox' = [outbox EXCEPT ![c] = Append(@, pending[c])]
  /\ pending' = [pending EXCEPT ![c] = NoResponse]
  /\ pc' = [pc EXCEPT ![c] = "recv"]
  /\ UNCHANGED <<connected_clients, conn, inbox, sent>>
  /\ UNCHANGED <<calls, protoVars>>

\* line 29 raising ConnectionClosed: lines 31-34
SendFails(c) ==
  /\ pc[c] = "send"
  /\ conn[c] = "client_closed"
  /\ pending' = [pending EXCEPT ![c] = NoResponse]
  /\ pc' = [pc EXCEPT ![c] = "done"]
  /\ connected_clients' = connected_clients \ {c}
  /\ UNCHANGED <<conn, inbox, sent, outbox>>
  /\ UNCHANGED <<calls, protoVars>>

\* the client closes its connection
ClientClose(c) ==
  /\ conn[c] = "open"
  /\ conn' = [conn EXCEPT ![c] = "client_closed"]
  /\ UNCHANGED <<connected_clients, pc, inbox, pending, sent, outbox>>
  /\ UNCHANGED <<calls, protoVars>>

\* line 27 on a closed connection: the iteration ends or raises
\* ConnectionClosed; lines 31-34
HandlerExit(c) ==
  /\ pc[c] = "recv"
  /\ conn[c] = "client_closed"
  /\ pc' = [pc EXCEPT ![c] = "done"]
  /\ connected_clients' = connected_clients \ {c}
  /\ UNCHANGED <<conn, inbox, pending, sent, outbox>>
  /\ UNCHANGED <<calls, protoVars>>

MockNext ==
  \/ \E c \in Clients : Connect(c)
  \/ \E c \in Clients, m \in Messages : ClientSend(c, m)
  \/ \E c \in Clients : Receive(c)
  \/ \E c \in Clients : SendResponse(c)
  \/ \E c \in Clients : SendFails(c)
  \/ \E c \in Clients : ClientClose(c)
  \/ \E c \in Clients : HandlerExit(c)


(***************************************************************************)
(* process_message applied to a sequence of messages by one server: the    *)
(* function reads nothing but its argument.                                *)
(***************************************************************************)

InitDispatch == calls = <<>>

\* lines 36-91, on one more message
Process(m) ==
  /\ Len(calls) < MaxMsgs
  /\ calls' = Append(calls, [message |-> m, outcome |-> process_message(m)])
  /\ UNCHANGED <<mockVars, protoVars>>

DispatchNext == \E m \in Messages : Process(m)


(***************************************************************************)
(* VtkVisualizationProtocol.  The visualization library is external: each  *)
(* of its calls either has the effect below on the objects it returns or   *)
(* raises.  A method is the list of the steps its try block executes, in   *)
(* source order; Exec runs the list until a step returns or raises.        *)
(***************************************************************************)
None == [k |-> "None"]
\* Python's truth value of a session field (None or a library object) and
\* of a string argument
Truthy(v) == v # None
NonEmpty(str) == str # ""

Lib(op, a) == [kind |-> "lib", op |-> op, a |-> a]
Py(op, a) == [kind |-> "py", op |-> op, a |-> a]

\* the session fields of __init__, lines 43-49, and the library's supply of
\* fresh objects
Session(v, r, cr, cf, vr, da, cm, n) ==
  [view |-> v, reader |-> r, current_representation |-> cr,
   contour_filter |-> cf, volume_representation |-> vr, data_arrays |-> da,
   color_map |-> cm, nextObj |-> n]

\* the effect on the session of one step that does not end the method
StepEffect(s, ins) ==
  CASE ins.op = "CreateView" ->
         [s EXCEPT !.view = [k |-> "proxy", id |-> s.nextObj + 1,
                             ViewSize |-> <<>>, Background |-> <<>>],
                   !.nextObj = @ + 1]
    [] ins.op = "view.ViewSize=" -> [s EXCEPT !.view.ViewSize = ins.a]
    [] ins.op = "view.Background=" -> [s EXCEPT !.view.Background = ins.a]
    [] ins.op = "LegacyVTKReader" ->
         [s EXCEPT !.reader = [k |-> "proxy", id |-> s.nextObj + 1],
                   !.nextObj = @ + 1]
    [] ins.op = "Show(reader)" ->
         [s EXCEPT !.current_representation =
                      [k |-> "proxy", id |-> s.nextObj + 1,
                       Representation |-> "", DiffuseColor |-> <<>>],
                   !.nextObj = @ + 1]
    [] ins.op = "rep.Representation=" ->
         [s EXCEPT !.current_representation.Representation = ins.a]
    [] ins.op = "rep.DiffuseColor=" ->
         [s EXCEPT !.current_representation.DiffuseColor = ins.a]
    [] ins.op = "data_arrays=[]" -> [s EXCEPT !.data_arrays = <<>>]
    [] ins.op = "data_arrays.append" ->
         [s EXCEPT !.data_arrays = Append(@, ins.a)]
    [] ins.op = "Contour" ->
         [s EXCEPT !.contour_filter = [k |-> "proxy", id |-> s.nextObj + 1,
                                       ContourBy |-> <<>>,
                                       Isosurfaces |-> <<>>],
                   !.nextObj = @ + 1]
    [] ins.op = "contour.ContourBy=" ->
         [s EXCEPT !.contour_filter.ContourBy = ins.a]
    [] ins.op = "contour.Isosurfaces=" ->
         [s EXCEPT !.contour_filter.Isosurfaces = ins.a]
    [] OTHER -> s

\* str(e) of an exception the library raises: the library's own text
LibraryErrorText == "library call failed"

\* Runs the steps of a try block.  failAt = 0: no library call raises;
\* failAt = k > 0: the k-th library call this invocation makes raises.
RECURSIVE Exec(_, _, _)
Exec(s, prog, failAt) ==
  LET ins == Head(prog) IN
  IF ins.op = "return" THEN
    [s |-> s, out |-> Return(ins.a), libFailed |-> FALSE]
  ELSE IF ins.op = "raise" THEN
    [s |-> s, out |-> Raise(ins.a.type, ins.a.text), libFailed |-> FALSE]
  ELSE IF ins.kind = "lib" /\ failAt = 1 THEN
    [s |-> s, out |-> Raise("RuntimeError", LibraryErrorText),
     libFailed |-> TRUE]
  ELSE Exec(StepEffect(s, ins), Tail(prog),
            IF ins.kind = "lib" /\ failAt > 0 THEN failAt - 1 ELSE failAt)

\* the number of library calls in a list of steps
RECURSIVE LibCalls(_)
LibCalls(prog) ==
  IF prog = <<>> THEN 0
  ELSE (IF Head(prog).kind = "lib" THEN 1 ELSE 0) + LibCalls(Tail(prog))

\* the except clause narrowed to an exception type the library does not
\* raise: the exception goes on to the caller
TryExcept_Narrow(run, prefix) ==
  [s |-> run.s, libFailed |-> run.libFailed, escaped |-> run.out.raised,
   exc |-> IF run.out.raised THEN run.out.exc ELSE None,
   result |-> IF run.out.raised THEN None ELSE run.out.value]

\* try: ... except Exception as e: return {'status': 'error', 'message':
\* f'<prefix>: {str(e)}'}   (lines 113-118, 164-166, 213-215, 238-240)
TryExcept(run, prefix) ==
  [s |-> run.s, libFailed |-> run.libFailed, escaped |-> FALSE,
   exc |-> None,
   result |-> IF run.out.raised
                THEN [status |-> "error",
                      message |-> prefix \o ": " \o run.out.exc.text]
                ELSE run.out.value]

(***************************************************************************)
(* The call itself.  The RPC layer calls the registered method with the    *)
(* positional arguments of the request; Python binds them to the           *)
(* parameters of the def line before the body, and so before the try       *)
(* block, is entered.                                                      *)
(***************************************************************************)
\* a def line: the required parameters after self, and the default values
\* of the optional ones
Signature(qualname, required, defaults) ==
  [qualname |-> qualname, required |-> required, defaults |-> defaults]

\* line 52: def initialize_visualization(self)
initialize_visualization_signature ==
  Signature("VtkVisualizationProtocol.initialize_visualization", <<>>, <<>>)

\* line 121: def apply_color_map(self, array_name,
\*                               color_map_name='Cool to Warm')
apply_color_map_signature ==
  Signature("VtkVisualizationProtocol.apply_color_map", <<"array_name">>,
            <<"Cool to Warm">>)

\* line 169: def generate_contours(self, array_name, num_contours=5)
generate_contours_signature ==
  Signature("VtkVisualizationProtocol.generate_contours", <<"array_name">>,
            <<5>>)

\* line 218: def export_image(self, filename='paraview_export.png',
\*                            width=1920, height=1080)
export_image_signature ==
  Signature("VtkVisualizationProtocol.export_image", <<>>,
            <<"paraview_export.png", 1920, 1080>>)

\* the method registered under an RPC name: the register decorators of
\* lines 51, 120, 168, 217
SignatureOf(method) ==
  CASE method = "vtk.initialize" -> initialize_visualization_signature
    [] method = "vtk.apply_color_map" -> apply_color_map_signature
    [] method = "vtk.generate_contours" -> generate_contours_signature
    [] method = "vtk.export_image" -> export_image_signature

\* Binding of the positional arguments args to the parameters after self:
\* the values of all parameters, or the TypeError Python raises at the
\* call.  No method has more than one required parameter, so at most one
\* can be missing.  The counts in the text include self.
BindArguments(sig, args) ==
  LET n == Len(args)
      lo == Len(sig.required)
      hi == Len(sig.required) + Len(sig.defaults)
  IN
  IF n < lo THEN
    Raise("TypeError",
          sig.qualname \o "() missing 1 required positional argument: '"
            \o sig.required[lo] \o "'")
  ELSE IF n > hi THEN
    Raise("TypeError",
          sig.qualname \o "() takes "
            \o (IF lo = hi THEN ToString(hi + 1)
                           ELSE "from " \o ToString(lo + 1) \o " to "
                                  \o ToString(hi + 1))
            \o (IF hi = 0 THEN " positional argument"
                          ELSE " positional arguments")
            \o " but " \o ToString(n + 1) \o " were given")
  ELSE Return(args \o SubSeq(sig.defaults, n - lo + 1, Len(sig.defaults)))

\* a call whose arguments do not bind: the body is not entered, the
\* TypeError goes to the RPC caller, the session is as it was
NotBound(s, exc) ==
  [s |-> s, libFailed |-> FALSE, escaped |-> TRUE, exc |-> exc,
   result |-> None]

(***************************************************************************)
(* What the environment gives a call: whether the two candidate paths of   *)
(* the VTK file exist, and what the file holds.                            *)
(***************************************************************************)
Array(name, lo, hi) == [name |-> name, range |-> <<lo, hi>>, components |-> 1]
File(arrays, points, cells) ==
  [arrays |-> arrays, bounds |-> <<0, 1, 0, 1, 0, 1>>,
   points |-> points, cells |-> cells]
Files ==
  { File(<<Array("Temperature", 20, 30), Array("Pressure", 0, 12)>>, 27, 8) }

\* lines 83-92: one iteration of the loop for each array of the file
RECURSIVE ArrayLoop(_)
ArrayLoop(arrays) ==
  IF arrays = <<>> THEN <<>>
  ELSE << Lib("GetArrayInformation", Head(arrays).name),
          Lib("GetName", Head(arrays).name),
          Lib("GetComponentRange", Head(arrays).name),
          Lib("GetNumberOfComponents", Head(arrays).name),
          Py("data_arrays.append", Head(arrays)) >> \o ArrayLoop(Tail(arrays))

\* lines 55-111: the try block of initialize_visualization
initialize_visualization_steps(publicExists, cwdExists, file) ==
  LET vtk_file_path == IF publicExists THEN "public/Topology.vtk"
                                       ELSE "Topology.vtk"
      exists == publicExists \/ cwdExists
  IN
  << Lib("CreateView", "RenderView"),
     Lib("view.ViewSize=", <<1200, 800>>),
     Lib("view.Background=", <<"0.1", "0.1", "0.1">>) >> \o
  IF exists THEN
    << Lib("LegacyVTKReader", vtk_file_path),
       Lib("Show(reader)", None),
       Lib("rep.Representation=", "Surface"),
       Lib("rep.DiffuseColor=", <<"1.0", "0.0", "0.0">>),
       Lib("GetDataInformation", None),
       Lib("GetPointDataInformation", None),
       Py("data_arrays=[]", None),
       Lib("GetNumberOfArrays", None) >> \o
    ArrayLoop(file.arrays) \o
    << Lib("ResetCamera", None),
       Lib("Render", None),
       Lib("GetBounds", None),
       Lib("GetNumberOfPoints", None),
       Lib("GetNumberOfCells", None),
       Py("return", [status |-> "success",
                     message |-> "ParaView initialized successfully",
                     data_arrays |-> file.arrays,
                     bounds |-> file.bounds,
                     points |-> file.points,
                     cells |-> file.cells]) >>
  ELSE
    << Py("return", [status |-> "error",
                     message |-> "VTK file not found: " \o vtk_file_path]) >>

\* lines 51-118
initialize_visualization(s, publicExists, cwdExists, file, failAt) ==
  TryExcept(Exec(s, initialize_visualization_steps(publicExists, cwdExists,
                                                   file), failAt),
            "Initialization failed")

\* the call of initialize_visualization with the arguments args
initialize_visualization_call(s, args, publicExists, cwdExists, file, failAt) ==
  LET b == BindArguments(initialize_visualization_signature, args) IN
  IF b.raised THEN NotBound(s, b.exc)
  ELSE initialize_visualization(s, publicExists, cwdExists, file, failAt)

\* the library calls that call makes when none of them raises
initialize_visualization_lib_calls(args, publicExists, cwdExists, file) ==
  IF BindArguments(initialize_visualization_signature, args).raised THEN 0
  ELSE LibCalls(initialize_visualization_steps(publicExists, cwdExists,
                                               file))

\* lines 136-147: color_map_presets.get(color_map_name, 'Cool to Warm')
ColorMapPreset(color_map_name) ==
  CASE color_map_name = "Cool to Warm" -> "Cool to Warm"
    [] color_map_name = "Blue to Red Rainbow" -> "Blue to Red Rainbow"
    [] color_map_name = "Viridis" -> "Viridis"
    [] color_map_name = "Plasma" -> "Plasma"
    [] color_map_name = "Inferno" -> "Inferno"
    [] color_map_name = "Hot" -> "Hot"
    [] color_map_name = "Jet" -> "jet"
    [] color_map_name = "Grayscale" -> "Grayscale"
    [] OTHER -> "Cool to Warm"

\* lines 124-162: the try block of apply_color_map
apply_color_map_steps(s, array_name, color_map_name) ==
  IF ~Truthy(s.current_representation) \/ ~NonEmpty(array_name) THEN
    << Py("return", [status |-> "error",
                     message |-> "No valid representation or array"]) >>
  ELSE
    << Lib("ColorBy", array_name),
       Lib("GetColorTransferFunction", array_name),
       Lib("ApplyPreset", ColorMapPreset(color_map_name)),
       Lib("GetScalarBar", None),
       Lib("color_bar.Visibility=", 1),
       Lib("color_bar.Title=", array_name),
       Lib("color_bar.ComponentTitle=", ""),
       Lib("Render", None),
       Py("return", [status |-> "success",
                     message |-> "Applied " \o color_map_name
                                   \o " color map to " \o array_name]) >>

\* lines 120-166
apply_color_map(s, array_name, color_map_name, failAt) ==
  TryExcept(Exec(s, apply_color_map_steps(s, array_name, color_map_name),
                 failAt),
            "Color mapping failed")

\* the call of apply_color_map with the arguments args
apply_color_map_call(s, args, failAt) ==
  LET b == BindArguments(apply_color_map_signature, args) IN
  IF b.raised THEN NotBound(s, b.exc)
  ELSE apply_color_map(s, b.value[1], b.value[2], failAt)

\* the library calls that call makes when none of them raises
apply_color_map_lib_calls(s, args) ==
  IF BindArguments(apply_color_map_signature, args).raised THEN 0
  ELSE LibCalls(apply_color_map_steps(
      s,
      BindArguments(apply_color_map_signature, args).value[1],
      BindArguments(apply_color_map_signature, args).value[2]))

\* lines 182-186: the first array of data_arrays with that name, or None
RECURSIVE FindArray(_, _)
FindArray(arrays, array_name) ==
  IF arrays = <<>> THEN None
  ELSE IF Head(arrays).name = array_name THEN Head(arrays)
  ELSE FindArray(Tail(arrays), array_name)

\* Contour values are kept exact, as fractions num/den: the code computes
\* them in floating point.
\* line 194: min_val + step * (i + 1) for i in range(num_contours), with
\* step = (max_val - min_val) / (num_contours + 1) of line 193
ContourValues(min_val, max_val, num_contours) ==
  IF num_contours <= 0 THEN <<>>
  ELSE [i \in 1 .. num_contours |->
          [num |-> min_val * (num_contours + 1) + (max_val - min_val) * i,
           den |-> num_contours + 1]]

\* lines 172-211: the try block of generate_contours
generate_contours_steps(s, array_name, num_contours) ==
  IF ~Truthy(s.reader) \/ ~NonEmpty(array_name) THEN
    << Py("return", [status |-> "error",
                     message |-> "No valid data or array"]) >>
  ELSE
    LET array_info == FindArray(s.data_arrays, array_name) IN
    << Lib("Contour", None),
       Lib("contour.ContourBy=", <<"POINTS", array_name>>) >> \o
    IF array_info = None THEN
      << Py("return", [status |-> "error",
                       message |-> "Array " \o array_name \o " not found"]) >>
    ELSE IF num_contours + 1 = 0 THEN
      << Py("raise", [type |-> "ZeroDivisionError",
                      text |-> "float division by zero"]) >>
    ELSE
      LET contour_values == ContourValues(array_info.range[1],
                                          array_info.range[2], num_contours)
      IN
      << Lib("contour.Isosurfaces=", contour_values),
         Lib("Show(contour)", None),
         Lib("contour_rep.Representation=", "Surface"),
         Lib("contour_rep.DiffuseColor=", <<"0.0", "0.0", "1.0">>),
         Lib("contour_rep.Opacity=", "0.7"),
         Lib("Render", None),
         Py("return", [status |-> "success",
                       message |-> "Generated " \o ToString(num_contours)
                                     \o " contours",
                       contour_values |-> contour_values]) >>

\* lines 168-215
generate_contours(s, array_name, num_contours, failAt) ==
  TryExcept(Exec(s, generate_contours_steps(s, array_name, num_contours),
                 failAt),
            "Contour generation failed")

\* the call of generate_contours with the arguments args
generate_contours_call(s, args, failAt) ==
  LET b == BindArguments(generate_contours_signature, args) IN
  IF b.raised THEN NotBound(s, b.exc)
  ELSE generate_contours(s, b.value[1], b.value[2], failAt)

\* the library calls that call makes when none of them raises
generate_contours_lib_calls(s, args) ==
  IF BindArguments(generate_contours_signature, args).raised THEN 0
  ELSE LibCalls(generate_contours_steps(
      s,
      BindArguments(generate_contours_signature, args).value[1],
      BindArguments(generate_contours_signature, args).value[2]))

\* lines 221-236: the try block of export_image
export_image_steps(s, filename, width, height) ==
  IF ~Truthy(s.view) THEN
    << Py("return", [status |-> "error", message |-> "No valid view"]) >>
  ELSE
    << Lib("view.ViewSize=", <<width, height>>),
       Lib("SaveScreenshot", filename),
       Py("return", [status |-> "success",
                     message |-> "Image exported: " \o filename,
                     filename |-> filename]) >>

\* lines 217-240
export_image(s, filename, width, height, failAt) ==
  TryExcept(Exec(s, export_image_steps(s, filename, width, height), failAt),
            "Image export failed")

\* the call of export_image with the arguments args
export_image_call(s, args, failAt) ==
  LET b == BindArguments(export_image_signature, args) IN
  IF b.raised THEN NotBound(s, b.exc)
  ELSE export_image(s, b.value[1], b.value[2], b.value[3], failAt)

\* the library calls that call makes when none of them raises
export_image_lib_calls(s, args) ==
  IF BindArguments(export_image_signature, args).raised THEN 0
  ELSE LibCalls(export_image_steps(
      s,
      BindArguments(export_image_signature, args).value[1],
      BindArguments(export_image_signature, args).value[2],
      BindArguments(export_image_signature, args).value[3]))

(***************************************************************************)
(* State of one VtkVisualizationProtocol instance.                         *)
(***************************************************************************)


CurrentSession ==
  Session(view, reader, current_representation, contour_filter,
          volume_representation, data_arrays, color_map, nextObj)

NoCall == [method |-> "none"]

\* lines 41-49
InitProto ==
  /\ view = None
  /\ reader = None
  /\ current_representation = None
  /\ contour_filter = None
  /\ volume_representation = None
  /\ data_arrays = <<>>
  /\ color_map = None
  /\ nextObj = 0
  /\ lastCall = NoCall
  /\ lastOutcome = NoCall
  /\ init_succeeded = FALSE

\* the session after a call, and what the caller got
Commit(r, call) ==
  /\ view' = r.s.view
  /\ reader' = r.s.reader
  /\ current_representation' = r.s.current_representation
  /\ contour_filter' = r.s.contour_filter
  /\ volume_representation' = r.s.volume_representation
  /\ data_arrays' = r.s.data_arrays
  /\ color_map' = r.s.color_map
  /\ nextObj' = r.s.nextObj
  /\ lastCall' = call
  /\ lastOutcome' = [result |-> r.result, libFailed |-> r.libFailed,
                     escaped |-> r.escaped, exc |-> r.exc]

Succeeded(r) == ~r.escaped /\ r.result.status = "success"

ArgArrayNames == {"", "Pressure", "Velocity"}
ArgColorMaps == {"Jet"}
ArgNumContours == (0 - MaxContours) .. MaxContours

\* The argument lists a caller sends: too few, without and with the
\* optional arguments, and one too many.
InitializeArgs == {<<>>, <<"Pressure">>}
ApplyColorMapArgs ==
  {<<>>, <<"Pressure">>}
    \cup {<<a, c>> : a \in ArgArrayNames, c \in ArgColorMaps}
    \cup {<<"Pressure", "Jet", "Jet">>}
GenerateContoursArgs ==
  {<<>>, <<"Pressure">>}
    \cup {<<a, n>> : a \in ArgArrayNames, n \in ArgNumContours}
    \cup {<<"Pressure", 2, 2>>}
ExportImageArgs ==
  {<<>>, <<"out.png">>, <<"out.png", 1920, 1080, 1>>}

\* what is recorded of a call: the method, the arguments sent and, when
\* they bind, the value of each parameter
CallOf(method, args, names) ==
  LET b == BindArguments(SignatureOf(method), args) IN
  IF b.raised THEN [method |-> method, args |-> args, params |-> <<>>]
  ELSE [method |-> method, args |-> args,
        params |-> [i \in 1 .. Len(names) |-> <<names[i], b.value[i]>>]]

\* In the four actions r is the outcome of the call: the session it leaves
\* and what the caller gets.

\* RPC vtk.initialize
Initialize(args, publicExists, cwdExists, file, failAt) ==
  /\ \E r \in {initialize_visualization_call(CurrentSession, args,
                                             publicExists, cwdExists, file,
                                             failAt)} :
       /\ r.s.nextObj <= MaxObjs
       /\ Commit(r, CallOf("vtk.initialize", args, <<>>))
       /\ init_succeeded' = (init_succeeded \/ Succeeded(r))
  /\ UNCHANGED <<mockVars, calls>>

\* RPC vtk.apply_color_map
ApplyColorMap(args, failAt) ==
  /\ \E r \in {apply_color_map_call(CurrentSession, args, failAt)} :
       Commit(r, CallOf("vtk.apply_color_map", args,
                        <<"array_name", "color_map_name">>))
  /\ UNCHANGED init_succeeded
  /\ UNCHANGED <<mockVars, calls>>

\* RPC vtk.generate_contours
GenerateContours(args, failAt) ==
  /\ \E r \in {generate_contours_call(CurrentSession, args, failAt)} :
       /\ r.s.nextObj <= MaxObjs
       /\ Commit(r, CallOf("vtk.generate_contours", args,
                           <<"array_name", "num_contours">>))
  /\ UNCHANGED init_succeeded
  /\ UNCHANGED <<mockVars, calls>>

\* RPC vtk.export_image
ExportImage(args, failAt) ==
  /\ \E r \in {export_image_call(CurrentSession, args, failAt)} :
       Commit(r, CallOf("vtk.export_image", args,
                        <<"filename", "width", "height">>))
  /\ UNCHANGED init_succeeded
  /\ UNCHANGED <<mockVars, calls>>

ProtoNext ==
  \/ \E args \in InitializeArgs, publicExists \in BOOLEAN,
        cwdExists \in BOOLEAN, file \in Files :
       \E failAt \in 0 .. initialize_visualization_lib_calls(
                            args, publicExists, cwdExists, file) :
         Initialize(args, publicExists, cwdExists, file, failAt)
  \/ \E args \in ApplyColorMapArgs :
       \E failAt \in 0 .. apply_color_map_lib_calls(CurrentSession, args) :
         ApplyColorMap(args, failAt)
  \/ \E args \in GenerateContoursArgs :
       \E failAt \in 0 .. generate_contours_lib_calls(CurrentSession,
                                                      args) :
         GenerateContours(args, failAt)
  \/ \E args \in ExportImageArgs :
       \E failAt \in 0 .. export_image_lib_calls(CurrentSession, args) :
         ExportImage(args, failAt)

(***************************************************************************)
(* Specifications.                                                         *)
(***************************************************************************)
vars == <<mockVars, calls, protoVars>>

Init == InitMock /\ InitDispatch /\ InitProto

\* the mock server with its clients
SpecMock == Init /\ [][MockNext]_vars

\* process_message on a sequence of messages
SpecDispatch == Init /\ [][DispatchNext]_vars

\* one VtkVisualizationProtocol instance under a sequence of RPC calls
SpecProto == Init /\ [][ProtoNext]_vars

(***************************************************************************)
(* Properties of the mock server.                                          *)
(***************************************************************************)
\* the responses the handler of c has produced, sent or about to be sent;
\* the i-th answers the i-th message c sent
Produced(c) ==
  IF pending[c] = NoResponse THEN outbox[c] ELSE Append(outbox[c], pending[c])

IsError(response) == "error" \in DOMAIN response
IsResult(response) == "result" \in DOMAIN response

\* C1: an exception raised while a message is handled gives an error
\* response whose error.message is the exception text; no exception leaves
\* process_message, so no handler is ended by one.
C1_ExceptionGivesErrorResponse ==
  \A c \in Clients :
    /\ pc[c] # "crashed"
    /\ \A i \in 1 .. Len(Produced(c)) :
         LET body == MockTryBody(sent[c][i]) IN
         body.raised =>
           /\ IsError(Produced(c)[i])
           /\ Produced(c)[i].error.message = body.exc.text

\* the id member of a request, null standing for a request without one
RequestId(message) ==
  IF message.v.f.id = JAbsent THEN JNull ELSE message.v.f.id

\* C2: every response carries the id of the request it answers, on the
\* result path and on the error path, also for a request without an id.
C2_IdEchoed ==
  \A c \in Clients : \A i \in 1 .. Len(outbox[c]) :
    outbox[c][i].id = RequestId(sent[c][i])

\* C6: each client gets exactly one response for each message it sent, in
\* the order sent and computed from its own message; unless the client
\* closed the connection, no message stays unanswered once its handler has
\* nothing left to read or send.
C6_OneResponsePerMessage ==
  \A c \in Clients :
    /\ Len(outbox[c]) <= Len(sent[c])
    /\ \A i \in 1 .. Len(outbox[c]) :
         /\ ~process_message(sent[c][i]).raised
         /\ outbox[c][i] = process_message(sent[c][i]).value
    /\ (conn[c] # "client_closed" /\ inbox[c] = <<>> /\ pc[c] # "send")
         => Len(outbox[c]) = Len(sent[c])

(***************************************************************************)
(* Properties of process_message as a function of its message.             *)
(***************************************************************************)
\* the i-th processed message got a response with a result
Answered(i) ==
  /\ ~calls[i].outcome.raised
  /\ IsResult(calls[i].outcome.value)
ResultOf(i) == calls[i].outcome.value.result
MethodOf(i) == calls[i].message.v.f.method
IdOf(i) == calls[i].message.v.f.id
FourMethods == {JStr(m) : m \in MethodNames}

\* params.array_name of a request whose params is an object or missing
RequestArrayName(message) ==
  LET p == message.v.f.params IN
  IF p = JAbsent \/ p.f.array_name = JAbsent THEN JStr("unknown")
  ELSE p.f.array_name

\* C3 as stated: the result is fixed by the method name alone.
C3_ResultFixedByMethod ==
  \A i, j \in 1 .. Len(calls) :
    (Answered(i) /\ Answered(j) /\ MethodOf(i) \in FourMethods
       /\ MethodOf(i) = MethodOf(j))
      => ResultOf(i) = ResultOf(j)

\* C3, amended: two requests with the same method name among the four get
\* the same result whatever their id and the messages handled before, and
\* whatever their params except that for vtk.apply_color_map they must
\* name the same array.
C3_ResultFixedByMethodAndArray ==
  \A i, j \in 1 .. Len(calls) :
    (Answered(i) /\ Answered(j) /\ MethodOf(i) \in FourMethods
       /\ MethodOf(i) = MethodOf(j)
       /\ (MethodOf(i) = JStr("vtk.apply_color_map")
             => RequestArrayName(calls[i].message)
                  = RequestArrayName(calls[j].message)))
      => ResultOf(i) = ResultOf(j)

\* two answered vtk.apply_color_map requests with different ids that name
\* the same array, one handled after the other
C3_Witness ==
  \E i, j \in 1 .. Len(calls) :
    /\ i < j
    /\ Answered(i) /\ Answered(j)
    /\ MethodOf(i) = JStr("vtk.apply_color_map")
    /\ MethodOf(j) = JStr("vtk.apply_color_map")
    /\ IdOf(i) # IdOf(j)
    /\ RequestArrayName(calls[i].message) = JStr("Pressure")
    /\ RequestArrayName(calls[j].message) = JStr("Pressure")

\* the fields of the success result of the real method registered under a
\* name: the protocol is initialized, then each method is called with no
\* library failure
RealSuccessFields(name) ==
  LET s0 == Session(None, None, None, None, None, <<>>, None, 0)
      file == CHOOSE f \in Files : TRUE
      init == initialize_visualization(s0, TRUE, TRUE, file, 0)
  IN
  CASE name = "vtk.initialize" -> DOMAIN init.result
    [] name = "vtk.apply_color_map" ->
         DOMAIN apply_color_map(init.s, "Pressure", "Jet", 0).result
    [] name = "vtk.generate_contours" ->
         DOMAIN generate_contours(init.s, "Pressure", 2, 0).result
    [] name = "vtk.export_image" ->
         DOMAIN export_image(init.s, "paraview_export.png", 1920, 1080,
                             0).result

\* C5: for each of the four method names, the mock's result has the fields
\* of the real method's success result.
C5_SameFieldsAsReal ==
  \A i \in 1 .. Len(calls) :
    (Answered(i) /\ MethodOf(i) \in FourMethods)
      => DOMAIN ResultOf(i) = RealSuccessFields(MethodOf(i).s)

(***************************************************************************)
(* Properties of VtkVisualizationProtocol.                                 *)
(***************************************************************************)
Called == lastCall.method # "none"
\* the call returned a result to the RPC caller
Returned == Called /\ ~lastOutcome.escaped
\* the status of the result of a call that returned
Status == lastOutcome.result.status
\* the arguments of the call bind to the parameters of the method
ArgumentsBind ==
  ~BindArguments(SignatureOf(lastCall.method), lastCall.args).raised

\* C4 as stated: every call, with any arguments, returns a result with
\* status 'success' or 'error' and a message, no exception reaches the RPC
\* caller, and a call in which a library call raised returns status
\* 'error'.
C4_AlwaysStatusAndMessage ==
  Called =>
    /\ ~lastOutcome.escaped
    /\ Status \in {"success", "error"}
    /\ "message" \in DOMAIN lastOutcome.result
    /\ lastOutcome.libFailed => Status = "error"

\* C4, amended: a call whose arguments bind to the parameters of the
\* method returns a result with status 'success' or 'error' and a message,
\* raises nothing to the RPC caller, and returns status 'error' when a
\* library call raised; a call whose arguments do not bind returns no
\* result: it raises TypeError to the RPC caller.
C4_BoundCallReturnsStatus ==
  Called =>
    IF ArgumentsBind
      THEN /\ ~lastOutcome.escaped
           /\ Status \in {"success", "error"}
           /\ "message" \in DOMAIN lastOutcome.result
           /\ lastOutcome.libFailed => Status = "error"
      ELSE /\ lastOutcome.escaped
           /\ lastOutcome.exc.type = "TypeError"
           /\ ~lastOutcome.libFailed

\* initialize_visualization was called with arguments that bind, a library
\* call raised in it after the reader was created, and the caller got
\* status 'error'
C4_Witness ==
  /\ lastCall.method = "vtk.initialize"
  /\ ArgumentsBind
  /\ lastOutcome.libFailed
  /\ ~lastOutcome.escaped
  /\ Status = "error"
  /\ reader # None

\* C7: a successful generate_contours on an array with range min < max
\* returns exactly num_contours values, strictly increasing, evenly spaced
\* by (max - min) / (num_contours + 1) and strictly between min and max.
C7_ContourValues ==
  (lastCall.method = "vtk.generate_contours" /\ Returned
     /\ Status = "success") =>
    LET info == FindArray(data_arrays, lastCall.params[1][2])
        lo == info.range[1]
        hi == info.range[2]
        n == lastCall.params[2][2]
        cv == lastOutcome.result.contour_values
    IN lo < hi =>
         /\ Len(cv) = n
         /\ \A i \in 1 .. Len(cv) :
              /\ cv[i].den = n + 1
              /\ lo * cv[i].den < cv[i].num
              /\ cv[i].num < hi * cv[i].den
         /\ \A i \in 1 .. Len(cv) - 1 :
              /\ cv[i].num < cv[i + 1].num
              /\ cv[i + 1].num - cv[i].num = hi - lo

\* C8: apply_color_map and generate_contours return 'success' only after
\* an initialize_visualization call that returned 'success'.
C8_SuccessOnlyAfterInit ==
  (lastCall.method \in {"vtk.apply_color_map", "vtk.generate_contours"}
     /\ Returned /\ Status = "success")
    => init_succeeded

\* C9: a call that returns status 'error' leaves view, reader,
\* current_representation, contour_filter and data_arrays as they were.
C9_ErrorLeavesSession ==
  [][(lastCall'.method # "none" /\ ~lastOutcome'.escaped
        /\ lastOutcome'.result.status = "error")
       => <<view, reader, current_representation, contour_filter,
            data_arrays>>'
          = <<view, reader, current_representation, contour_filter,
              data_arrays>>]_vars
=============================================================================
